---- MODULE Spec2Model ----
(***************************************************************************)
(* Timeline staleness classifier of maintenance-actions.                   *)
(*                                                                         *)
(* The repository carries three copies of the classifier:                  *)
(*   "add-label"   src/core/add-update-label/add-label.js  analyzeTimeline *)
(*   "REV"         src/unnamed/part_000                 isTimelineOutdated *)
(*   "add-label-r" src/core/add-update-label-weekly/add-label-r.js         *)
(* The variable impl says which copy a behaviour runs.                     *)
(*                                                                         *)
(* Instants are counted in ticks of ten minutes.                           *)
(***************************************************************************)
EXTENDS Integers, Sequences, FiniteSets, TLC

VARIABLES
    impl,                   \* which copy of the classifier runs
    timeline,               \* the fetched timeline of the issue (oldest first)
    assignees,              \* logins returned by getAssignees
    pc,                     \* position of the run for this issue
    i,                      \* loop index of the backward scan (1-based)
    lastAssignedTimestamp,  \* 0 = null
    lastCommentTimestamp,   \* 0 = null
    commentsToMinimize,     \* node ids collected by the scan
    minimizeCalls,          \* node ids handed to minimizeComments
    overrideAt,             \* index of the event whose open linked PR returned early, 0 = none
    response,               \* what the classifier returned
    removeCalls,            \* labels passed to removeLabels, in order
    addCalls,               \* labels passed to addLabels
    postCalls,              \* labels passed to postComment
    text,                   \* input of findLinkedIssue (link-detection runs)
    linked,                 \* what findLinkedIssue returned
    timeframes,             \* config.timeframes
    idx,                    \* position of the loop of main in issueNums
    dryRunInput,            \* core.getInput('dry-run'), "" when the input is absent
    dryRun,                 \* config.dryRun after resolveConfigs
    server,                 \* the timeline the tracker holds for each issue
    page,                   \* page number of getTimeline
    fetchBroke,             \* the error that made getTimeline leave its loop, or "no"
    tasks,                  \* the minimizeComments calls that were started
    clock,                  \* seconds since the run started
    calls,                  \* label and comment requests sent, in order
    minimizeLog,            \* minimizeIssueComment calls: start and settle times
    results,                \* the responses of the classifier, by issue, in order
    repo,                   \* the issues and pull requests of the repository
    projectBoardIds,        \* config.projectBoardIds
    listed,                 \* getIssueNumsFromRepo: the listed items
    selected,               \* getIssueNumsFromRepo: issueNums, as far as built
    merger,                 \* which copy of deepMerge runs
    layers,                 \* deepMerge: defaults, project configuration, overrides
    config,                 \* deepMerge: the merged configuration
    issueLabels,            \* move-closed-issues: the labels of the closed issue
    status,                 \* move-closed-issues: the status main returned
    carried,                \* the labels the issue carries on the tracker
    pending,                \* the requests of the plan that are still to be sent
    attempts,               \* the requests sent for the issue, with their outcome
    elapsed,                \* time between the first run and this run, in ticks
    previous                \* what the classifier returned in the run before this one

vars == << impl, timeline, assignees, pc, i, lastAssignedTimestamp,
           lastCommentTimestamp, commentsToMinimize, minimizeCalls, overrideAt,
           response, removeCalls, addCalls, postCalls, text, linked,
           timeframes, idx, dryRunInput, dryRun, server, page, fetchBroke,
           tasks, clock, calls, minimizeLog, results,
           repo, projectBoardIds, listed, selected, merger, layers, config,
           issueLabels, status, carried, pending, attempts, elapsed, previous >>

\* the state of main around the classification of one issue
runVars == << timeframes, idx, dryRunInput, dryRun, server, page, fetchBroke,
              tasks, clock, calls, minimizeLog, results >>

\* the state of the steps that are followed on their own
selectVars == << repo, projectBoardIds, listed, selected >>

mergeVars == << merger, layers, config >>

sortVars == << issueLabels, status >>

applyVars == << carried, pending, attempts >>

repeatVars == << elapsed, previous >>

unitVars == << selectVars, mergeVars, sortVars, applyVars, repeatVars >>

----------------------------------------------------------------------------
(* Bounds *)

MaxLen == 2

MaxTextLen == 7

\* events per page of the timeline (the code asks for 100 per page)
PageSize == 1

\* last second a run is followed to
MaxClock == 3

\* items of the repository
MaxIssues == 2

\* days over which the runs of one issue are followed
MaxElapsedDays == 15

----------------------------------------------------------------------------
(* Time *)

TicksPerDay == 144

TenMinutes == 1

updatedByDays == 3

commentByDays == 7

inactiveByDays == 14

upperLimitDays == 35

\* new Date() of the run under way: the instant of the first run and the time since
Now == 5760 + elapsed

\* getDefaultConfigs().timeframes
defaultTimeframes ==
    [ updatedByDays  |-> updatedByDays,
      commentByDays  |-> commentByDays,
      inactiveByDays |-> inactiveByDays,
      upperLimitDays |-> upperLimitDays ]

\* the cutoffs without the ten minutes added or subtracted
calculateCutoffTimes_noBuffer(tf) ==
    [ updated    |-> Now - tf.updatedByDays * TicksPerDay,
      comment    |-> Now - tf.commentByDays * TicksPerDay,
      inactive   |-> Now - tf.inactiveByDays * TicksPerDay,
      upperLimit |-> Now - tf.upperLimitDays * TicksPerDay ]

calculateCutoffTimes(tf) ==
    [ updated    |-> Now - tf.updatedByDays * TicksPerDay,
      comment    |-> Now - tf.commentByDays * TicksPerDay - TenMinutes,
      inactive   |-> Now - tf.inactiveByDays * TicksPerDay,
      upperLimit |-> Now - tf.upperLimitDays * TicksPerDay + TenMinutes ]

cutoffTimes == calculateCutoffTimes(timeframes)

\* the cutoffs of the default configuration
defaultCutoffTimes == calculateCutoffTimes(defaultTimeframes)

\* new Date(dateString) >= cutoffTime; a missing date is an Invalid Date and compares false
isMomentRecent(dateString, cutoffTime) == dateString # 0 /\ dateString >= cutoffTime

----------------------------------------------------------------------------
(* shared/find-linked-issue.js                                             *)
(* A text is null or a string; a string is a sequence of lexemes: a word,  *)
(* one whitespace character, or "#" followed by digits. Adjacent lexemes   *)
(* are adjacent characters, so <<"x", "Fixes">> reads "xFixes".            *)

NullText == [isString |-> FALSE, chars |-> << >>]

Str(chars) == [isString |-> TRUE, chars |-> chars]

KEYWORDS == {"close", "closes", "closed", "fix", "fixes", "fixed",
             "resolve", "resolves", "resolved"}

\* the 'i' flag of the RegExp
toLowerCase(lexeme) ==
    CASE lexeme = "Fixes"    -> "fixes"
      [] lexeme = "CLOSES"   -> "closes"
      [] lexeme = "Resolved" -> "resolved"
      [] OTHER               -> lexeme

\* \s
isWhitespace(lexeme) == lexeme \in {" ", "\n", "\t"}

\* #(\d+)
isIssueRef(lexeme) == lexeme \in {"#1", "#2"}

\* parseInt(matches[0][1], 10)
parseInt(lexeme) == IF lexeme = "#1" THEN 1 ELSE 2

matchesAt_unbounded(chars, p) ==
    /\ toLowerCase(chars[p]) \in KEYWORDS
    /\ p + 2 <= Len(chars)
    /\ chars[p + 1] = " "
    /\ isIssueRef(chars[p + 2])
    /\ (p + 2 = Len(chars) \/ isWhitespace(chars[p + 3]))

\* (?:^|\s)(?:close|closes|...) #(\d+)(?=\s|$) with the keyword at lexeme p
matchesAt(chars, p) ==
    /\ toLowerCase(chars[p]) \in KEYWORDS
    /\ (p = 1 \/ isWhitespace(chars[p - 1]))
    /\ p + 2 <= Len(chars)
    /\ chars[p + 1] = " "
    /\ isIssueRef(chars[p + 2])
    /\ (p + 2 = Len(chars) \/ isWhitespace(chars[p + 3]))

\* [...text.matchAll(re)]: the keyword positions of all matches
matchAll(chars) == { p \in 1..Len(chars) : matchesAt(chars, p) }

NoLink == [found |-> FALSE, number |-> 0]

findLinkedIssue_first(t) ==
    IF ~t.isString THEN NoLink
    ELSE LET matches == matchAll(t.chars) IN
         IF Cardinality(matches) >= 1
         THEN [found |-> TRUE,
               number |-> parseInt(t.chars[(CHOOSE p \in matches : \A q \in matches : p <= q) + 2])]
         ELSE NoLink

\* text.matchAll on null throws inside the try block; the catch falls through to return false
findLinkedIssue(t) ==
    IF ~t.isString THEN NoLink
    ELSE LET matches == matchAll(t.chars) IN
         IF Cardinality(matches) = 1
         THEN [found |-> TRUE,
               number |-> parseInt(t.chars[(CHOOSE p \in matches : TRUE) + 2])]
         ELSE NoLink

\* JavaScript's loose ==: false == n exactly when n is 0
looseEquals(r, issueNum) == IF r.found THEN r.number = issueNum ELSE issueNum = 0

----------------------------------------------------------------------------
(* Configuration and the inputs of one classification pass *)

labels == [ statusUpdated   |-> "Status: Updated",
            statusInactive1 |-> "Status: To Update",
            statusInactive2 |-> "Status: Inactive" ]

bots == {"github-actions[bot]", "HackforLABot"}

MARKER == "<!-- Skills Issue Activity Record -->"

\* what getIssueNumsFromRepo returned
issueNums == << 1, 2 >>

\* the number of the issue the loop of main is at
issueNum == issueNums[idx]

Impls == {"add-label", "REV", "add-label-r"}

\* a login that is absent: event.actor or event.assignee is null
NoLogin == "<null>"

\* a comment body that is absent
NoBody == "<undefined>"

NoSource == [ pull_request |-> FALSE, hasIssue |-> FALSE,
              issue |-> [pull_request |-> FALSE, state |-> "", body |-> NullText] ]

Commented(actor, created, updated, body) ==
    [ event |-> "commented", actor |-> actor, assignee |-> NoLogin,
      created_at |-> created, updated_at |-> updated, body |-> body,
      node_id |-> 0, source |-> NoSource ]

Assigned(actor, assignee, created) ==
    [ event |-> "assigned", actor |-> actor, assignee |-> assignee,
      created_at |-> created, updated_at |-> 0, body |-> NoBody,
      node_id |-> 0, source |-> NoSource ]

Unassigned(actor, assignee, created) ==
    [ event |-> "unassigned", actor |-> actor, assignee |-> assignee,
      created_at |-> created, updated_at |-> 0, body |-> NoBody,
      node_id |-> 0, source |-> NoSource ]

Labeled(actor, created) ==
    [ event |-> "labeled", actor |-> actor, assignee |-> NoLogin,
      created_at |-> created, updated_at |-> 0, body |-> NoBody,
      node_id |-> 0, source |-> NoSource ]

\* srcPR is event.source.pull_request, issuePR is event.source.issue.pull_request
CrossReferenced(actor, srcPR, issuePR, state, body, created) ==
    [ event |-> "cross-referenced", actor |-> actor, assignee |-> NoLogin,
      created_at |-> created, updated_at |-> created, body |-> NoBody,
      node_id |-> 0,
      source |-> [ pull_request |-> srcPR, hasIssue |-> TRUE,
                   issue |-> [pull_request |-> issuePR, state |-> state, body |-> body] ] ]

\* event.updated_at || event.created_at
eventTimestampOf(e) == IF e.updated_at # 0 THEN e.updated_at ELSE e.created_at

----------------------------------------------------------------------------
(* One iteration of the backward scan.  The outcome is "return" (the open  *)
(* linked pull request returns early), "throw" (a property of null or      *)
(* undefined is read) or "next" with the updated locals.                   *)

\* add-label.js and add-label-r.js guard on event.source.pull_request, REV does not
isLinkedIssueReadsBody(im, e) ==
    IF im = "REV" THEN TRUE ELSE e.source.pull_request

isLinkedIssueThrows(im, e) == isLinkedIssueReadsBody(im, e) /\ ~e.source.hasIssue

isLinkedIssue(im, e, num) ==
    /\ isLinkedIssueReadsBody(im, e)
    /\ e.source.hasIssue
    /\ looseEquals(findLinkedIssue(e.source.issue.body), num)

isOpenLinkedPullRequest_anyState(im, e, num) ==
    /\ e.event = "cross-referenced"
    /\ isLinkedIssue(im, e, num)

isOpenLinkedPullRequest(im, e, num) ==
    /\ e.event = "cross-referenced"
    /\ isLinkedIssue(im, e, num)
    /\ e.source.issue.state = "open"

\* the comment carries the marker: REV and add-label.js test data.body first
hasMarker(e) == e.body = MARKER

\* isBotComment / isCommentByBot for a commented event
isCommentByBotThrows(im, e) ==
    \/ im = "add-label-r" /\ e.body = NoBody
    \/ ~hasMarker(e) /\ e.actor = NoLogin

isCommentByBot(im, e) == ~hasMarker(e) /\ e.actor \in bots

inMinimizeWindow_noUpperLimit(e) ==
    ~isMomentRecent(e.created_at, cutoffTimes.comment)

\* the date window of the minimization
inMinimizeWindow(e) ==
    /\ isMomentRecent(e.created_at, cutoffTimes.upperLimit)
    /\ ~isMomentRecent(e.created_at, cutoffTimes.comment)

\* the bot-comment test is evaluated: add-label.js calls isBotComment before the
\* dates, the other two only inside the date window
botTestEvaluated(im, e) ==
    e.event = "commented" /\ (im = "add-label" \/ inMinimizeWindow(e))

\* getAssignees of REV returns null when its request fails; the classifier then
\* calls includes on null
NullAssignees == {"<null array>"}

readsAssignees(im, e, lastC, lastA) ==
    \/ isOpenLinkedPullRequest(im, e, issueNum)
    \/ lastC = 0 /\ e.event = "commented"
    \/ lastA = 0 /\ e.event = "assigned"

scanThrows(im, e, asg, lastC, lastA) ==
    \/ e.event = "cross-referenced" /\ isLinkedIssueThrows(im, e)
    \/ asg = NullAssignees /\ readsAssignees(im, e, lastC, lastA)
    \/ isOpenLinkedPullRequest(im, e, issueNum) /\ e.actor = NoLogin
    \/ lastC = 0 /\ e.event = "commented" /\ e.actor = NoLogin
    \/ lastA = 0 /\ e.event = "assigned" /\ e.assignee = NoLogin
    \/ botTestEvaluated(im, e) /\ isCommentByBotThrows(im, e)

\* the early return without the test of the actor
scanReturns_anyActor(im, e, asg) ==
    isOpenLinkedPullRequest(im, e, issueNum)

scanReturns(im, e, asg) ==
    isOpenLinkedPullRequest(im, e, issueNum) /\ e.actor \in asg

\* the comment of an assignee is taken whether or not one was met before
scanComment_overwrite(e, asg, lastC) ==
    IF e.event = "commented" /\ e.actor \in asg
    THEN eventTimestampOf(e) ELSE lastC

scanComment(e, asg, lastC) ==
    IF lastC = 0 /\ e.event = "commented" /\ e.actor \in asg
    THEN eventTimestampOf(e) ELSE lastC

scanAssigned(e, asg, lastA) ==
    IF lastA = 0 /\ e.event = "assigned" /\ e.assignee \in asg
    THEN eventTimestampOf(e) ELSE lastA

scanMinimize(im, e, toMinimize) ==
    IF e.event = "commented" /\ isCommentByBot(im, e) /\ inMinimizeWindow(e)
    THEN Append(toMinimize, e.node_id) ELSE toMinimize

----------------------------------------------------------------------------
(* The classification after the scan *)

Undefined == "undefined"

\* add-label.js: { action, labels }
analyzeResult(action, labelName) ==
    [ result |-> Undefined, action |-> action, labels |-> labelName ]

\* REV, add-label-r.js: { result, labels }
outdatedResult(result, labelName) ==
    [ result |-> result, action |-> Undefined, labels |-> labelName ]

NoResponse == [ result |-> Undefined, action |-> Undefined, labels |-> Undefined ]

\* add-label.js, analyzeTimeline after the loop
analyzeTimelineClassify(lastC, lastA) ==
    LET lastActivity == IF lastC # 0 THEN lastC ELSE lastA IN
    IF lastActivity = 0 THEN analyzeResult("add", labels.statusInactive2)
    ELSE IF lastActivity >= cutoffTimes.updated
         THEN analyzeResult("retain-updated", labels.statusUpdated)
    ELSE IF lastActivity >= cutoffTimes.comment
         THEN analyzeResult("remove-all", "")
    ELSE IF lastActivity >= cutoffTimes.inactive
         THEN analyzeResult("add", labels.statusInactive1)
    ELSE analyzeResult("add", labels.statusInactive2)

\* the recent assignment tested before the recent comment
isTimelineOutdatedClassify_assignedFirst(lastC, lastA) ==
    IF lastA # 0 /\ isMomentRecent(lastA, cutoffTimes.updated)
    THEN outdatedResult("false", "")
    ELSE IF lastC # 0 /\ isMomentRecent(lastC, cutoffTimes.updated)
    THEN outdatedResult("false", labels.statusUpdated)
    ELSE IF \/ lastC # 0 /\ isMomentRecent(lastC, cutoffTimes.comment)
            \/ lastA # 0 /\ isMomentRecent(lastA, cutoffTimes.comment)
    THEN outdatedResult("false", "")
    ELSE IF \/ lastC # 0 /\ isMomentRecent(lastC, cutoffTimes.inactive)
            \/ lastA # 0 /\ isMomentRecent(lastA, cutoffTimes.inactive)
    THEN outdatedResult("true", labels.statusInactive1)
    ELSE outdatedResult("true", labels.statusInactive2)

\* REV and add-label-r.js, isTimelineOutdated after the loop
isTimelineOutdatedClassify(lastC, lastA) ==
    IF lastC # 0 /\ isMomentRecent(lastC, cutoffTimes.updated)
    THEN outdatedResult("false", labels.statusUpdated)
    ELSE IF lastA # 0 /\ isMomentRecent(lastA, cutoffTimes.updated)
    THEN outdatedResult("false", "")
    ELSE IF \/ lastC # 0 /\ isMomentRecent(lastC, cutoffTimes.comment)
            \/ lastA # 0 /\ isMomentRecent(lastA, cutoffTimes.comment)
    THEN outdatedResult("false", "")
    ELSE IF \/ lastC # 0 /\ isMomentRecent(lastC, cutoffTimes.inactive)
            \/ lastA # 0 /\ isMomentRecent(lastA, cutoffTimes.inactive)
    THEN outdatedResult("true", labels.statusInactive1)
    ELSE outdatedResult("true", labels.statusInactive2)

classify(im, lastC, lastA) ==
    IF im = "add-label" THEN analyzeTimelineClassify(lastC, lastA)
    ELSE isTimelineOutdatedClassify(lastC, lastA)

minimizedBeforeReturn_flush(toMinimize) == toMinimize

\* the early return leaves the function before minimizeComments is reached
minimizedBeforeReturn(toMinimize) == << >>

\* what the early return of the open linked pull request hands back
overrideResponse(im) ==
    IF im = "add-label" THEN analyzeResult("remove-all", "")
    ELSE outdatedResult("false", "")

----------------------------------------------------------------------------
(* The classifier as a function of the timeline: the loop from its last    *)
(* event down to its first, then the label decision.                       *)

RECURSIVE scanLoop(_, _, _, _, _, _, _)
scanLoop(im, tl, asg, k, lastC, lastA, toMinimize) ==
    IF k = 0
    THEN [ outcome |-> "end", lastC |-> lastC, lastA |-> lastA,
           toMinimize |-> toMinimize ]
    ELSE IF scanThrows(im, tl[k], asg, lastC, lastA)
    THEN [ outcome |-> "throw", lastC |-> lastC, lastA |-> lastA,
           toMinimize |-> toMinimize ]
    ELSE IF scanReturns(im, tl[k], asg)
    THEN [ outcome |-> "return", lastC |-> lastC, lastA |-> lastA,
           toMinimize |-> toMinimize ]
    ELSE scanLoop(im, tl, asg, k - 1,
                  scanComment(tl[k], asg, lastC),
                  scanAssigned(tl[k], asg, lastA),
                  scanMinimize(im, tl[k], toMinimize))

\* the scan of analyzeTimeline / isTimelineOutdated over a whole timeline
scanTimeline(im, tl, asg) == scanLoop(im, tl, asg, Len(tl), 0, 0, << >>)

\* what the classifier hands back after a scan that did not throw
responseOf(im, scan) ==
    IF scan.outcome = "return" THEN overrideResponse(im)
    ELSE IF scan.outcome = "end" THEN classify(im, scan.lastC, scan.lastA)
    ELSE NoResponse

\* the node ids the classifier passes to minimizeComments
minimizedOf(scan) ==
    IF scan.outcome = "end" THEN scan.toMinimize
    ELSE minimizedBeforeReturn(scan.toMinimize)

----------------------------------------------------------------------------
(* The label and comment calls main derives from the response *)

branchInactive1(im, r) ==
    IF im = "add-label" THEN r.action = "add" /\ r.labels = labels.statusInactive1
    ELSE r.result = "true" /\ r.labels = labels.statusInactive1

branchInactive2(im, r) ==
    IF im = "add-label" THEN r.action = "add" /\ r.labels = labels.statusInactive2
    ELSE r.result = "true" /\ r.labels = labels.statusInactive2

branchUpdated(im, r) ==
    IF im = "add-label" THEN r.action = "retain-updated"
    ELSE r.result = "false" /\ r.labels = labels.statusUpdated

branchRemoveAll(im, r) ==
    IF im = "add-label" THEN r.action = "remove-all"
    ELSE r.result = "false" /\ r.labels = ""

\* a notice removes the Updated label only, not the other notice
labelsToRemove_updatedOnly(im, r) ==
    IF branchInactive1(im, r) \/ branchInactive2(im, r) THEN << labels.statusUpdated >>
    ELSE IF branchUpdated(im, r) THEN << labels.statusInactive1, labels.statusInactive2 >>
    ELSE IF branchRemoveAll(im, r)
         THEN << labels.statusInactive1, labels.statusInactive2, labels.statusUpdated >>
    ELSE << >>

labelsToRemove(im, r) ==
    IF branchInactive1(im, r) THEN << labels.statusUpdated, labels.statusInactive2 >>
    ELSE IF branchInactive2(im, r) THEN << labels.statusInactive1, labels.statusUpdated >>
    ELSE IF branchUpdated(im, r) THEN << labels.statusInactive1, labels.statusInactive2 >>
    ELSE IF branchRemoveAll(im, r)
         THEN << labels.statusInactive1, labels.statusInactive2, labels.statusUpdated >>
    ELSE << >>

labelsToAdd_whenNamed(im, r) ==
    IF r.labels \notin {"", Undefined} THEN << r.labels >> ELSE << >>

labelsToAdd(im, r) ==
    IF branchInactive1(im, r) \/ branchInactive2(im, r) THEN << r.labels >> ELSE << >>

commentsToPost_firstOnly(im, r) ==
    IF branchInactive1(im, r) THEN << labels.statusInactive1 >> ELSE << >>

commentsToPost(im, r) ==
    IF branchInactive1(im, r) THEN << labels.statusInactive1 >>
    ELSE IF branchInactive2(im, r) THEN << labels.statusInactive2 >>
    ELSE << >>

----------------------------------------------------------------------------
(* The timelines a run is given *)

Assignee == "alice"

Outsider == "mallory"

Bot == "github-actions[bot]"

\* instants at and next to the cutoffs that decide the label
ActivityStamps ==
    { cutoffTimes.updated, cutoffTimes.updated - TenMinutes,
      Now - commentByDays * TicksPerDay,
      cutoffTimes.comment, cutoffTimes.comment - TenMinutes,
      cutoffTimes.inactive, cutoffTimes.inactive - TenMinutes }

\* instants at and next to the cutoffs of the minimization window
CommentAgeStamps ==
    { Now - upperLimitDays * TicksPerDay, cutoffTimes.upperLimit,
      cutoffTimes.comment - TenMinutes, cutoffTimes.comment,
      Now - commentByDays * TicksPerDay }

LinkThis == Str(<< "Fixes", " ", "#1" >>)

LinkOther == Str(<< "Fixes", " ", "#2" >>)

LinkBoth == Str(<< "Fixes", " ", "#1", " ", "Fixes", " ", "#2" >>)

\* a payload marks a pull request at source.issue.pull_request; source.pull_request,
\* when a payload carries it at all, comes with it
SourceShapes == { << FALSE, FALSE >>, << FALSE, TRUE >>, << TRUE, TRUE >> }

WellFormedEvents ==
         { Commented(Assignee, t, 0, "text") : t \in ActivityStamps }
    \cup { Commented(Assignee, cutoffTimes.inactive - TenMinutes, cutoffTimes.updated, "text") }
    \cup { Commented(Bot, t, 0, "text") : t \in CommentAgeStamps }
    \cup { Commented(Bot, t, 0, MARKER) : t \in {cutoffTimes.upperLimit, cutoffTimes.comment - TenMinutes} }
    \cup { Commented(Bot, cutoffTimes.comment - TenMinutes, cutoffTimes.updated, "text"),
           Commented("HackforLABot", cutoffTimes.upperLimit, 0, "text") }
    \cup { Commented(Outsider, t, 0, "text") : t \in {cutoffTimes.updated, cutoffTimes.comment - TenMinutes} }
    \cup { Assigned(Outsider, Assignee, t) : t \in ActivityStamps }
    \cup { Assigned(Outsider, Assignee, Now - 20 * TicksPerDay),
           Commented(Assignee, Now - 10 * TicksPerDay, 0, "text") }
    \cup { Assigned(Assignee, Outsider, cutoffTimes.updated),
           Unassigned(Outsider, Assignee, cutoffTimes.updated),
           Labeled(Outsider, cutoffTimes.updated) }
    \cup { CrossReferenced(Assignee, sh[1], sh[2], st, LinkThis, cutoffTimes.updated) :
             sh \in SourceShapes, st \in {"open", "closed"} }
    \cup { CrossReferenced(Assignee, sh[1], TRUE, "open", b, cutoffTimes.updated) :
             sh \in {<< FALSE >>, << TRUE >>}, b \in {LinkOther, LinkBoth, NullText} }
    \cup { CrossReferenced(Outsider, TRUE, TRUE, "open", LinkThis, cutoffTimes.updated) }

\* events that miss a field their kind needs
MalformedEvents ==
    { Commented(NoLogin, cutoffTimes.updated, 0, "text"),
      Commented(Bot, cutoffTimes.comment - TenMinutes, 0, NoBody),
      Assigned(Outsider, NoLogin, cutoffTimes.updated),
      [ CrossReferenced(Assignee, FALSE, FALSE, "", NullText, cutoffTimes.updated)
          EXCEPT !.source.hasIssue = FALSE ],
      [ CrossReferenced(Assignee, TRUE, FALSE, "", NullText, cutoffTimes.updated)
          EXCEPT !.source.hasIssue = FALSE ] }

Events == WellFormedEvents \cup MalformedEvents

\* node ids are unique within a timeline
withNodeIds(s) == [ k \in 1..Len(s) |-> [ s[k] EXCEPT !.node_id = k ] ]

Timelines ==
    { withNodeIds(s) : s \in UNION { [1..n -> Events] : n \in 0..MaxLen } }

Lexemes == {"Fixes", " ", "#1", "#2", "x"}

Texts ==
    {NullText} \cup { Str(s) : s \in UNION { [1..n -> Lexemes] : n \in 0..MaxTextLen } }

----------------------------------------------------------------------------
(* The run of main for one issue *)

\* getIssueNumsFromRepo before it is called
SelectIdle ==
    /\ repo = << >>
    /\ projectBoardIds = "null"
    /\ listed = << >>
    /\ selected = << >>

\* resolveConfigs before it is called
MergeIdle ==
    /\ merger = "resolve-configs"
    /\ layers = << >>
    /\ config = << >>

\* move-closed-issues before it is called
SortIdle ==
    /\ issueLabels = {}
    /\ status = "undefined"

\* the label and comment requests of an issue, before they start
ApplyIdle ==
    /\ carried = {}
    /\ pending = << >>
    /\ attempts = << >>

\* the first run of the workflow
RepeatIdle ==
    /\ elapsed = 0
    /\ previous = NoResponse

\* the steps followed on their own, before they start
UnitIdle ==
    /\ RepeatIdle
    /\ SelectIdle
    /\ MergeIdle
    /\ SortIdle
    /\ ApplyIdle

\* main between two issues, with the default configuration
RunIdle ==
    /\ dryRunInput = ""
    /\ dryRun = "false"
    /\ server = << >>
    /\ page = 1
    /\ fetchBroke = "no"
    /\ tasks = << >>
    /\ clock = 0
    /\ calls = << >>
    /\ minimizeLog = << >>
    /\ results = << >>

Init ==
    /\ timeframes = defaultTimeframes
    /\ idx = 1
    /\ RunIdle
    /\ UnitIdle
    /\ impl \in Impls
    /\ timeline \in Timelines
    /\ assignees = {Assignee}
    /\ pc = "scan"
    /\ i = Len(timeline)
    /\ lastAssignedTimestamp = 0
    /\ lastCommentTimestamp = 0
    /\ commentsToMinimize = << >>
    /\ minimizeCalls = << >>
    /\ overrideAt = 0
    /\ response = NoResponse
    /\ removeCalls = << >>
    /\ addCalls = << >>
    /\ postCalls = << >>
    /\ text = NullText
    /\ linked = NoLink

\* the body of the for loop, for timeline[i]
ScanEvent ==
    /\ pc = "scan"
    /\ i >= 1
    /\ LET e == timeline[i] IN
       IF scanThrows(impl, e, assignees, lastCommentTimestamp, lastAssignedTimestamp)
       THEN /\ pc' = "threw"
            /\ UNCHANGED << i, lastAssignedTimestamp, lastCommentTimestamp,
                            commentsToMinimize, overrideAt, response, minimizeCalls >>
       ELSE IF scanReturns(impl, e, assignees)
       THEN /\ pc' = "classified"
            /\ overrideAt' = i
            /\ response' = overrideResponse(impl)
            /\ minimizeCalls' = minimizedBeforeReturn(commentsToMinimize)
            /\ UNCHANGED << i, lastAssignedTimestamp, lastCommentTimestamp,
                            commentsToMinimize >>
       ELSE /\ lastCommentTimestamp' = scanComment(e, assignees, lastCommentTimestamp)
            /\ lastAssignedTimestamp' = scanAssigned(e, assignees, lastAssignedTimestamp)
            /\ commentsToMinimize' = scanMinimize(impl, e, commentsToMinimize)
            /\ i' = i - 1
            /\ UNCHANGED << pc, overrideAt, response, minimizeCalls >>
    /\ UNCHANGED << impl, timeline, assignees, removeCalls,
                    addCalls, postCalls, text, linked >>
    /\ UNCHANGED runVars
    /\ UNCHANGED unitVars

\* after the loop: minimizeComments(commentsToMinimize), then the label decision
FinishScan ==
    /\ pc = "scan"
    /\ i = 0
    /\ minimizeCalls' = commentsToMinimize
    /\ response' = classify(impl, lastCommentTimestamp, lastAssignedTimestamp)
    /\ pc' = "classified"
    /\ UNCHANGED << impl, timeline, assignees, i, lastAssignedTimestamp,
                    lastCommentTimestamp, commentsToMinimize, overrideAt,
                    removeCalls, addCalls, postCalls, text, linked >>
    /\ UNCHANGED runVars
    /\ UNCHANGED unitVars

\* applyLabelsAndComments / the if-chain of main
ApplyLabelsAndComments ==
    /\ pc = "classified"
    /\ removeCalls' = labelsToRemove(impl, response)
    /\ addCalls' = labelsToAdd(impl, response)
    /\ postCalls' = commentsToPost(impl, response)
    /\ pc' = "applied"
    /\ UNCHANGED << impl, timeline, assignees, i, lastAssignedTimestamp,
                    lastCommentTimestamp, commentsToMinimize, minimizeCalls,
                    overrideAt, response, text, linked >>
    /\ UNCHANGED runVars
    /\ UNCHANGED unitVars

Next == ScanEvent \/ FinishScan \/ ApplyLabelsAndComments

Spec == Init /\ [][Next]_vars

----------------------------------------------------------------------------
(* Link detection on its own: findLinkedIssue applied to a text *)

InitLink ==
    /\ timeframes = defaultTimeframes
    /\ idx = 1
    /\ RunIdle
    /\ UnitIdle
    /\ impl = "add-label"
    /\ timeline = << >>
    /\ assignees = {Assignee}
    /\ pc = "link"
    /\ i = 0
    /\ lastAssignedTimestamp = 0
    /\ lastCommentTimestamp = 0
    /\ commentsToMinimize = << >>
    /\ minimizeCalls = << >>
    /\ overrideAt = 0
    /\ response = NoResponse
    /\ removeCalls = << >>
    /\ addCalls = << >>
    /\ postCalls = << >>
    /\ text \in Texts
    /\ linked = NoLink

FindLinkedIssue ==
    /\ pc = "link"
    /\ linked' = findLinkedIssue(text)
    /\ pc' = "linked"
    /\ UNCHANGED << impl, timeline, assignees, i, lastAssignedTimestamp,
                    lastCommentTimestamp, commentsToMinimize, minimizeCalls,
                    overrideAt, response, removeCalls, addCalls, postCalls, text >>
    /\ UNCHANGED runVars
    /\ UNCHANGED unitVars

NextLink == FindLinkedIssue

SpecLink == InitLink /\ [][NextLink]_vars

----------------------------------------------------------------------------
(* The run of the action: the configuration is resolved, then main walks   *)
(* issueNums; for each issue it fetches the timeline page by page, gets    *)
(* the assignees, classifies and sends the label and comment requests.     *)
(* minimizeComments runs beside main: a timer, then one request, per id.   *)

\* setTimeout(resolve, 1000), in seconds
minimizeDelay == 1

\* the timeframes among requiredFields
requiredFields == {"updatedByDays", "commentByDays", "inactiveByDays", "upperLimitDays"}

\* no required field is missing
validateRequiredFields(tf) == requiredFields \subseteq DOMAIN tf

\* core.getInput('dry-run') || 'false', merged as an override; the entry point of
\* the two other copies has no such input
resolveDryRun(im, input) ==
    IF im = "REV" THEN (IF input = "" THEN "false" ELSE input) ELSE Undefined

\* a page of the timeline endpoint
pageOf(tl, p) ==
    SubSeq(tl, (p - 1) * PageSize + 1,
           IF p * PageSize <= Len(tl) THEN p * PageSize ELSE Len(tl))

\* add-label.js and add-label-r.js call getTimeline(issueNum, github, context),
\* getTimeline(github, context, issueNum) then reads issueNum.rest.issues
getTimelineRequestThrows(im) == im # "REV"

\* how a minimizeIssueComment request can settle
minimizeIssueCommentOutcomes == {"resolved", "rejected"}

\* the requests applyLabelsAndComments sends for an issue
planCalls(im, num, r, asg) ==
    LET call(op, seq) == [ k \in 1..Len(seq) |-> [op |-> op, issue |-> num, label |-> seq[k]] ]
    IN call("remove", labelsToRemove(im, r))
         \o call("add", labelsToAdd(im, r))
         \o (IF asg = NullAssignees THEN << >> ELSE call("post", commentsToPost(im, r)))

\* timelines the tracker may hold
EligibleBotComment == Commented(Bot, defaultCutoffTimes.comment - TenMinutes, 0, "text")

RunTimelines ==
    { withNodeIds(tl) : tl \in
        { << >>,
          << EligibleBotComment, Commented(Assignee, defaultCutoffTimes.updated, 0, "text") >>,
          << EligibleBotComment, EligibleBotComment >>,
          << Assigned(Outsider, Assignee, Now - 20 * TicksPerDay),
             Commented(Assignee, Now - 10 * TicksPerDay, 0, "text") >>,
          << CrossReferenced(Assignee, TRUE, TRUE, "open", LinkThis, defaultCutoffTimes.updated) >>,
          << Commented(NoLogin, defaultCutoffTimes.updated, 0, "text") >> } }

\* configurations and dry-run inputs a run is started with: the default
\* timeframes, inverted ones, and ones that miss a required field
RunConfigs(im) ==
    LET InvertedTimeframes ==
            [ defaultTimeframes EXCEPT !.updatedByDays = 7, !.commentByDays = 3 ]
        IncompleteTimeframes ==
            [ updatedByDays |-> 3, commentByDays |-> 7, upperLimitDays |-> 35 ]
    IN
    { << defaultTimeframes, "" >>, << InvertedTimeframes, "" >> }
      \cup (IF im = "add-label-r" THEN {} ELSE { << IncompleteTimeframes, "" >> })
      \cup (IF im = "REV" THEN { << defaultTimeframes, "true" >>, << defaultTimeframes, "false" >> }
            ELSE {})

InitMain ==
    /\ UnitIdle
    /\ impl \in Impls
    /\ \E cfg \in RunConfigs(impl) : timeframes = cfg[1] /\ dryRunInput = cfg[2]
    /\ dryRun = Undefined
    /\ server \in [ { issueNums[k] : k \in 1..Len(issueNums) } -> RunTimelines ]
    /\ idx = 1
    /\ pc = "config"
    /\ page = 1
    /\ fetchBroke = "no"
    /\ timeline = << >>
    /\ assignees = {}
    /\ tasks = << >>
    /\ clock = 0
    /\ calls = << >>
    /\ minimizeLog = << >>
    /\ results = << >>
    /\ i = 0
    /\ lastAssignedTimestamp = 0
    /\ lastCommentTimestamp = 0
    /\ commentsToMinimize = << >>
    /\ minimizeCalls = << >>
    /\ overrideAt = 0
    /\ response = NoResponse
    /\ removeCalls = << >>
    /\ addCalls = << >>
    /\ postCalls = << >>
    /\ text = NullText
    /\ linked = NoLink

\* what a run of main leaves alone
mainFrame == << i, minimizeCalls, overrideAt, removeCalls, addCalls, postCalls,
                text, linked, impl, server, timeframes, dryRunInput, unitVars >>

\* resolveConfigs: merge, then validateRequiredFields; add-label-r.js requires its
\* config module without a validation
RunResolveConfigs ==
    /\ pc = "config"
    /\ IF impl # "add-label-r" /\ ~validateRequiredFields(timeframes)
       THEN pc' = "failed" /\ UNCHANGED dryRun
       ELSE pc' = "fetch" /\ dryRun' = resolveDryRun(impl, dryRunInput)
    /\ UNCHANGED << mainFrame, results, timeline, assignees, page, fetchBroke, idx, tasks,
                    clock, calls, minimizeLog, lastAssignedTimestamp,
                    lastCommentTimestamp, commentsToMinimize, response >>

\* one turn of the while loop of getTimeline: a page is appended, an empty page
\* ends the loop, an error is logged and ends the loop too
RunGetTimeline ==
    /\ pc = "fetch"
    /\ \E ok \in BOOLEAN :
          IF getTimelineRequestThrows(impl) \/ ~ok
          THEN /\ fetchBroke' = IF getTimelineRequestThrows(impl) THEN "TypeError"
                                ELSE "request failed"
               /\ pc' = "assignees"
               /\ UNCHANGED << timeline, page >>
          ELSE LET data == pageOf(server[issueNum], page) IN
               IF data = << >>
               THEN /\ pc' = "assignees"
                    /\ UNCHANGED << timeline, page, fetchBroke >>
               ELSE /\ timeline' = timeline \o data
                    /\ page' = page + 1
                    /\ UNCHANGED << pc, fetchBroke >>
    /\ UNCHANGED << mainFrame, results, assignees, idx, dryRun, tasks, clock, calls,
                    minimizeLog, lastAssignedTimestamp, lastCommentTimestamp,
                    commentsToMinimize, response >>

\* the for loop of main moves to the next issue, or main returns
toNextIssue ==
    /\ IF idx < Len(issueNums) THEN idx' = idx + 1 /\ pc' = "fetch"
       ELSE idx' = idx /\ pc' = "done"
    /\ page' = 1
    /\ timeline' = << >>
    /\ fetchBroke' = "no"

\* what getAssignees returns when its request fails
getAssigneesOnError(im) == IF im = "add-label" THEN {} ELSE NullAssignees

\* getAssignees, then the test assignees.length === 0 of add-label.js and
\* add-label-r.js: an empty list skips the issue, null makes the test throw
RunGetAssignees ==
    /\ pc = "assignees"
    /\ \E ok \in BOOLEAN :
          LET got == IF ok THEN {Assignee} ELSE getAssigneesOnError(impl) IN
          /\ assignees' = got
          /\ IF impl # "REV" /\ got = {}
             THEN toNextIssue
             ELSE /\ pc' = IF impl # "REV" /\ got = NullAssignees
                           THEN "failed" ELSE "analyze"
                  /\ UNCHANGED << idx, page, timeline, fetchBroke >>
    /\ UNCHANGED << mainFrame, results, dryRun, tasks, clock, calls, minimizeLog,
                    lastAssignedTimestamp, lastCommentTimestamp,
                    commentsToMinimize, response >>

\* add-label.js awaits minimizeComments before the label decision, REV and
\* add-label-r.js call it and go on
awaitsMinimize(im) == im = "add-label"

\* what the runtime does with the rejection of a promise nobody awaits: a
\* warning, or the end of the process
unhandledRejectionOutcomes == {"warn", "terminate"}

\* minimizeComments(ids) is started: its first timer is set
startMinimize(ts, num, ids) ==
    IF ids = << >> THEN ts
    ELSE Append(ts, [ issue |-> num, ids |-> ids, st |-> "timer",
                      wake |-> clock + minimizeDelay, entry |-> 0 ])

\* analyzeTimeline / isTimelineOutdated up to its first suspension: the scan, the
\* start of minimizeComments, and in REV and add-label-r.js, which do not await
\* it, the label decision
RunAnalyze ==
    /\ pc = "analyze"
    /\ LET scan == scanTimeline(impl, timeline, assignees) IN
       /\ lastCommentTimestamp' = scan.lastC
       /\ lastAssignedTimestamp' = scan.lastA
       /\ commentsToMinimize' = scan.toMinimize
       /\ IF scan.outcome = "throw"
          THEN pc' = "failed" /\ UNCHANGED << response, tasks >>
          ELSE IF scan.outcome = "return"
          THEN /\ response' = responseOf(impl, scan)
               /\ pc' = "apply"
               /\ UNCHANGED tasks
          ELSE /\ tasks' = startMinimize(tasks, issueNum, scan.toMinimize)
               /\ IF awaitsMinimize(impl)
                  THEN pc' = "awaitMinimize" /\ UNCHANGED response
                  ELSE response' = responseOf(impl, scan) /\ pc' = "apply"
    /\ results' = IF pc' = "apply"
                  THEN Append(results, [issue |-> issueNum, response |-> response'])
                  ELSE results
    /\ UNCHANGED << mainFrame, timeline, assignees, page, fetchBroke, idx, dryRun,
                    clock, calls, minimizeLog >>

\* add-label.js: await minimizeComments(commentsToMinimize), then the label
\* decision; a rejection leaves analyzeTimeline and main
RunAwaitMinimize ==
    /\ pc = "awaitMinimize"
    /\ LET awaited == IF commentsToMinimize = << >> THEN "done"
                      ELSE tasks[Len(tasks)].st IN
       /\ awaited \in {"done", "failed"}
       /\ IF awaited = "done"
          THEN /\ response' = classify(impl, lastCommentTimestamp, lastAssignedTimestamp)
               /\ results' = Append(results, [issue |-> issueNum, response |-> response'])
               /\ pc' = "apply"
          ELSE /\ pc' = "failed"
               /\ UNCHANGED << response, results >>
    /\ UNCHANGED << mainFrame, timeline, assignees, page, fetchBroke, idx, dryRun,
                    tasks, clock, calls, minimizeLog, lastAssignedTimestamp,
                    lastCommentTimestamp, commentsToMinimize >>

\* applyLabelsAndComments / the if-chain of main, then the next issue
RunApply ==
    /\ pc = "apply"
    /\ calls' = calls \o planCalls(impl, issueNum, response, assignees)
    /\ toNextIssue
    /\ UNCHANGED << mainFrame, results, assignees, dryRun, tasks, clock, minimizeLog,
                    lastAssignedTimestamp, lastCommentTimestamp,
                    commentsToMinimize, response >>

\* the timer of a minimizeComments loop expires: minimizeIssueComment is called
TimerFires ==
    /\ pc # "crashed"
    /\ \E t \in 1..Len(tasks) :
          /\ tasks[t].st = "timer"
          /\ clock >= tasks[t].wake
          /\ tasks' = [ tasks EXCEPT ![t].st = "call",
                                      ![t].entry = Len(minimizeLog) + 1 ]
          /\ minimizeLog' = Append(minimizeLog,
                 [ issue |-> tasks[t].issue, node |-> Head(tasks[t].ids),
                   started |-> clock, settled |-> -1 ])
    /\ UNCHANGED << mainFrame, results, pc, timeline, assignees, page, fetchBroke, idx,
                    dryRun, clock, calls, lastAssignedTimestamp,
                    lastCommentTimestamp, commentsToMinimize, response >>

\* a minimizeIssueComment request settles: the loop sets its next timer, ends, or
\* is left by the rejection
MinimizeSettles ==
    /\ pc # "crashed"
    /\ \E t \in 1..Len(tasks), outcome \in minimizeIssueCommentOutcomes,
          unhandled \in unhandledRejectionOutcomes :
          /\ tasks[t].st = "call"
          /\ pc' = IF /\ outcome = "rejected"
                      /\ ~awaitsMinimize(impl)
                      /\ unhandled = "terminate"
                   THEN "crashed" ELSE pc
          /\ minimizeLog' = [ minimizeLog EXCEPT ![tasks[t].entry].settled = clock ]
          /\ tasks' = [ tasks EXCEPT ![t] =
                IF outcome = "rejected" THEN [ tasks[t] EXCEPT !.st = "failed" ]
                ELSE IF Len(tasks[t].ids) = 1
                THEN [ tasks[t] EXCEPT !.st = "done", !.ids = << >> ]
                ELSE [ tasks[t] EXCEPT !.st = "timer", !.ids = Tail(tasks[t].ids),
                                       !.wake = clock + minimizeDelay ] ]
    /\ UNCHANGED << mainFrame, results, timeline, assignees, page, fetchBroke, idx,
                    dryRun, clock, calls, lastAssignedTimestamp,
                    lastCommentTimestamp, commentsToMinimize, response >>

\* a second passes while a minimizeComments loop is under way
Tick ==
    /\ pc # "crashed"
    /\ clock < MaxClock
    /\ \E t \in 1..Len(tasks) : tasks[t].st \in {"timer", "call"}
    /\ clock' = clock + 1
    /\ UNCHANGED << mainFrame, results, pc, timeline, assignees, page, fetchBroke, idx,
                    dryRun, tasks, calls, minimizeLog, lastAssignedTimestamp,
                    lastCommentTimestamp, commentsToMinimize, response >>

NextMain ==
    \/ RunResolveConfigs
    \/ RunGetTimeline
    \/ RunGetAssignees
    \/ RunAnalyze
    \/ RunAwaitMinimize
    \/ RunApply
    \/ TimerFires
    \/ MinimizeSettles
    \/ Tick

SpecMain == InitMain /\ [][NextMain]_vars

----------------------------------------------------------------------------
(* Issue selection: getIssueNumsFromRepo *)

\* config.projectBoard.targetStatus
targetStatus == "In progress (actively working)"

\* another column of the project board
questionsStatus == "Questions / In Review"

\* the names of the labels that exclude an issue
excludeLabels == {"Draft", "ER", "Epic", "Dependency"}

\* what the repository holds: issues and pull requests, open or closed, with
\* or without assignee, each with its labels and its column on the board
Repos ==
    LET RepoItems ==
            [ state : {"open", "closed"},
              assigned : BOOLEAN,
              pull_request : BOOLEAN,
              labels : { {"role: front end"}, {"role: front end", "Draft"} },
              statusName : {targetStatus, questionsStatus} ]
    IN UNION { [ 1..n -> RepoItems ] : n \in 1..MaxIssues }

\* GET /repos/{owner}/{repo}/issues with assignee '*' and the default state:
\* the open items that have an assignee, every page concatenated
listRepoIssues(r) ==
    LET RECURSIVE from(_)
        from(n) ==
            IF n > Len(r) THEN << >>
            ELSE IF r[n].state = "open" /\ r[n].assigned
                 THEN << [ number |-> n, labels |-> r[n].labels,
                           pull_request |-> r[n].pull_request ] >> \o from(n + 1)
                 ELSE from(n + 1)
    IN from(1)

\* the column of the issue on the project board
queryIssueInfo(r, number) == [ statusName |-> r[number].statusName ]

\* add-label.js: the status of every issue is reported as the target status
queryIssueStatus(number) == targetStatus

\* the test of the status in the loop over the listed items
hasTargetStatus(im, r, boardIds, number) ==
    IF im = "add-label"
    THEN (boardIds # "null" => queryIssueStatus(number) = targetStatus)
    ELSE queryIssueInfo(r, number).statusName = targetStatus

\* the loop body: is the listed item pushed to issueNums
keepsIssue(im, r, boardIds, item) ==
    /\ item.number # 0
    /\ ~ item.pull_request
    /\ item.labels \cap excludeLabels = {}
    /\ hasTargetStatus(im, r, boardIds, item.number)

\* the classifier before it is called
ScanIdle ==
    /\ timeline = << >>
    /\ assignees = {}
    /\ i = 0
    /\ lastAssignedTimestamp = 0
    /\ lastCommentTimestamp = 0
    /\ commentsToMinimize = << >>
    /\ minimizeCalls = << >>
    /\ overrideAt = 0
    /\ response = NoResponse
    /\ removeCalls = << >>
    /\ addCalls = << >>
    /\ postCalls = << >>
    /\ text = NullText
    /\ linked = NoLink

\* main before it is called, with the default configuration
MainIdle ==
    /\ timeframes = defaultTimeframes
    /\ idx = 1
    /\ RunIdle
    /\ ScanIdle

InitSelect ==
    /\ MainIdle
    /\ RepeatIdle
    /\ MergeIdle
    /\ SortIdle
    /\ ApplyIdle
    /\ impl \in Impls
    /\ repo \in Repos
    /\ projectBoardIds \in (IF impl = "add-label" THEN {"null", "PVT_1"} ELSE {"null"})
    /\ listed = << >>
    /\ selected = << >>
    /\ pc = "list"

\* the state of the classifier of one issue
scanVars == << timeline, assignees, i, lastAssignedTimestamp,
               lastCommentTimestamp, commentsToMinimize, minimizeCalls,
               overrideAt, response, removeCalls, addCalls, postCalls, text,
               linked >>

\* what getIssueNumsFromRepo leaves alone
selectFrame == << impl, scanVars, runVars, repo, projectBoardIds, mergeVars,
                 sortVars, applyVars, repeatVars >>

\* the while loop over the pages of the list request
ListIssues ==
    /\ pc = "list"
    /\ listed' = listRepoIssues(repo)
    /\ pc' = "filter"
    /\ UNCHANGED << selectFrame, selected >>

\* one iteration of the for loop over the listed items
FilterIssue ==
    /\ pc = "filter"
    /\ listed # << >>
    /\ selected' = IF keepsIssue(impl, repo, projectBoardIds, Head(listed))
                   THEN Append(selected, Head(listed).number)
                   ELSE selected
    /\ listed' = Tail(listed)
    /\ UNCHANGED << selectFrame, pc >>

\* return issueNums
ReturnIssueNums ==
    /\ pc = "filter"
    /\ listed = << >>
    /\ pc' = "selected"
    /\ UNCHANGED << selectFrame, listed, selected >>

NextSelect ==
    \/ ListIssues
    \/ FilterIssue
    \/ ReturnIssueNums

SpecSelect == InitSelect /\ [][NextSelect]_vars

----------------------------------------------------------------------------
(* Configuration merge: deepMerge *)

\* the keys of a section of the configuration; "0" is also the first index of
\* a string or of an array
Keys == {"path", "0"}

\* values that are not objects: undefined, null, the empty string, a string of
\* one character, a number, an array of one number
Atoms == {"undefined", "null", "''", "'a'", "7", "[7]"}

NoKeys == [ k \in Keys |-> "undefined" ]

Atom(s) == [ t |-> "atom", s |-> s, o |-> NoKeys ]

Obj(f) == [ t |-> "object", s |-> "", o |-> f ]

\* what a key of the configuration can hold: an atom or an object of atoms
Values == { Atom(s) : s \in Atoms } \cup { Obj(f) : f \in [ Keys -> Atoms ] }

\* !value
falsy(s) == s \in {"undefined", "null", "''"}

\* the enumerable properties of for (const key in obj) when obj is not an
\* object literal: the indices of a string or of an array
indexed(s) ==
    [ k \in Keys |-> IF k = "0" /\ s = "'a'" THEN "'a'"
                     ELSE IF k = "0" /\ s = "[7]" THEN "7"
                     ELSE "undefined" ]

\* for (const key in obj): the properties of a value
properties(v) == IF v.t = "object" THEN v.o ELSE indexed(v.s)

\* is the value left out of the result
skipped(m, s) ==
    IF m = "resolve-configs" THEN s = "undefined" ELSE falsy(s)

\* result[key] = value for a value that is not an object
assign(m, cur, s) == IF skipped(m, s) THEN cur ELSE s

\* deepMerge(result[key] || {}, value) for an object value
deepMergeNested(m, cur, value) ==
    LET lower == IF cur.t = "atom" /\ falsy(cur.s) THEN NoKeys ELSE properties(cur) IN
    Obj([ k \in Keys |-> assign(m, assign(m, "undefined", lower[k]), value.o[k]) ])

\* one iteration of the loop over the keys of one argument of deepMerge
mergeKey(m, cur, value) ==
    IF value.t = "object" THEN deepMergeNested(m, cur, value)
    ELSE IF skipped(m, value.s) THEN cur
    ELSE value

\* deepMerge(defaults, projectConfig, overrides), for one key
deepMerge(m, objects) ==
    mergeKey(m, mergeKey(m, mergeKey(m, Atom("undefined"), objects[1]), objects[2]),
             objects[3])

InitMerge ==
    /\ MainIdle
    /\ RepeatIdle
    /\ SelectIdle
    /\ SortIdle
    /\ ApplyIdle
    /\ impl = "REV"
    /\ pc = "merge"
    /\ merger \in {"resolve-configs", "label-resolver"}
    /\ layers \in Values \X Values \X Values
    /\ config = << >>

\* const config = deepMerge(defaults, projectConfig, overrides)
DeepMerge ==
    /\ pc = "merge"
    /\ config' = deepMerge(merger, layers)
    /\ pc' = "merged"
    /\ UNCHANGED << impl, scanVars, runVars, selectVars, sortVars, applyVars,
                    repeatVars, merger, layers >>

NextMerge == DeepMerge

SpecMerge == InitMerge /\ [][NextMerge]_vars

----------------------------------------------------------------------------
(* Sorting of a closed issue: move-closed-issues *)

doneStatus == "Done"

QAStatus == "QA"

\* the label directory: the current name of the label of each key
retrieveLabelDirectory ==
    [ featureRefactorCss      |-> "Feature: Refactor CSS",
      featureRefactorHtml     |-> "Feature: Refactor HTML",
      featureRefactorJsLiquid |-> "Feature: Refactor JS / Liquid",
      featureRefactorGha      |-> "Feature: Refactor GHA",
      roleBackEndDevOps       |-> "role: back end/devOps",
      featureAnalytics        |-> "Feature: Analytics",
      roleFrontEnd            |-> "role: front end" ]

hardLabels ==
    { retrieveLabelDirectory.featureRefactorCss,
      retrieveLabelDirectory.featureRefactorHtml,
      retrieveLabelDirectory.featureRefactorJsLiquid,
      retrieveLabelDirectory.featureRefactorGha }

softLabels ==
    { retrieveLabelDirectory.roleBackEndDevOps,
      retrieveLabelDirectory.featureAnalytics }

overrideSoftLabels == { retrieveLabelDirectory.roleFrontEnd }

isHardLabel(label) == label \in hardLabels

isSoftLabel(label) == label \in softLabels

isOverrideLabel(label) == label \in overrideSoftLabels

\* main with the override labels tested first
moveClosedIssues_overrideFirst(ls) ==
    IF \E label \in ls : isOverrideLabel(label) THEN QAStatus
    ELSE IF \E label \in ls : isHardLabel(label) THEN doneStatus
    ELSE IF \E label \in ls : isSoftLabel(label) THEN doneStatus
    ELSE QAStatus

\* main of move-closed-issues: the status the closed issue is sorted into
moveClosedIssues(ls) ==
    IF \E label \in ls : isHardLabel(label) THEN doneStatus
    ELSE IF \E label \in ls : isOverrideLabel(label) THEN QAStatus
    ELSE IF \E label \in ls : isSoftLabel(label) THEN doneStatus
    ELSE QAStatus

InitSort ==
    /\ MainIdle
    /\ RepeatIdle
    /\ SelectIdle
    /\ MergeIdle
    /\ ApplyIdle
    /\ impl = "REV"
    /\ pc = "sort"
    /\ issueLabels \in SUBSET (hardLabels \cup softLabels \cup overrideSoftLabels
                                  \cup {"good first issue"})
    /\ status = "undefined"

SortClosedIssue ==
    /\ pc = "sort"
    /\ status' = moveClosedIssues(issueLabels)
    /\ pc' = "sorted"
    /\ UNCHANGED << impl, scanVars, runVars, selectVars, mergeVars, applyVars,
                    repeatVars, issueLabels >>

NextSort == SortClosedIssue

SpecSort == InitSort /\ [][NextSort]_vars

----------------------------------------------------------------------------
(* The label and comment requests of one issue, each with its outcome *)

\* the three labels the workflow manages
statusLabels == { labels.statusUpdated, labels.statusInactive1, labels.statusInactive2 }

\* what the classifier can hand back
Responses(im) ==
    { classify(im, c, a) : c \in {0} \cup ActivityStamps, a \in {0} \cup ActivityStamps }
        \cup { overrideResponse(im) }

\* how a request can settle: the removal of a label the issue does not carry is
\* answered 404, any request can fail for another reason
requestOutcomes(call, onIssue) ==
    IF call.op = "remove" /\ call.label \notin onIssue THEN {"404", "error"}
    ELSE {"ok", "error"}

\* the labels of the issue after a request settled
labelsAfter(call, outcome, onIssue) ==
    IF outcome # "ok" THEN onIssue
    ELSE IF call.op = "remove" THEN onIssue \ {call.label}
    ELSE IF call.op = "add" THEN onIssue \cup {call.label}
    ELSE onIssue

\* a failed request drops the requests that follow it
afterSettled_uncaught(outcome, rest) == IF outcome = "error" THEN << >> ELSE rest

\* the catch block of removeLabels (inside its loop), addLabels and postComment:
\* the error is logged and the requests that follow are still sent
afterSettled(outcome, rest) == rest

InitApply ==
    /\ timeframes = defaultTimeframes
    /\ idx = 1
    /\ RunIdle
    /\ RepeatIdle
    /\ SelectIdle
    /\ MergeIdle
    /\ SortIdle
    /\ impl \in Impls
    /\ timeline = << >>
    /\ assignees \in (IF impl = "REV" THEN {{Assignee}, NullAssignees} ELSE {{Assignee}})
    /\ response \in Responses(impl)
    /\ pc = "apply"
    /\ carried \in SUBSET statusLabels
    /\ pending = planCalls(impl, issueNum, response, assignees)
    /\ attempts = << >>
    /\ i = 0
    /\ lastAssignedTimestamp = 0
    /\ lastCommentTimestamp = 0
    /\ commentsToMinimize = << >>
    /\ minimizeCalls = << >>
    /\ overrideAt = 0
    /\ removeCalls = << >>
    /\ addCalls = << >>
    /\ postCalls = << >>
    /\ text = NullText
    /\ linked = NoLink

\* what the requests of an issue leave alone
applyFrame == << impl, timeline, assignees, i, lastAssignedTimestamp,
                 lastCommentTimestamp, commentsToMinimize, minimizeCalls,
                 overrideAt, response, removeCalls, addCalls, postCalls, text,
                 linked, runVars, selectVars, mergeVars, sortVars, repeatVars >>

\* the request at the head of the plan settles with the outcome
Settles(outcome) ==
    /\ carried' = labelsAfter(Head(pending), outcome, carried)
    /\ attempts' = Append(attempts, [ call |-> Head(pending), outcome |-> outcome ])
    /\ pending' = afterSettled(outcome, Tail(pending))

\* one iteration of the loop of removeLabels
RemoveLabel ==
    /\ pc = "apply"
    /\ pending # << >>
    /\ Head(pending).op = "remove"
    /\ \E outcome \in requestOutcomes(Head(pending), carried) : Settles(outcome)
    /\ UNCHANGED << applyFrame, pc >>

\* addLabels
AddLabel ==
    /\ pc = "apply"
    /\ pending # << >>
    /\ Head(pending).op = "add"
    /\ \E outcome \in requestOutcomes(Head(pending), carried) : Settles(outcome)
    /\ UNCHANGED << applyFrame, pc >>

\* postComment
PostComment ==
    /\ pc = "apply"
    /\ pending # << >>
    /\ Head(pending).op = "post"
    /\ \E outcome \in requestOutcomes(Head(pending), carried) : Settles(outcome)
    /\ UNCHANGED << applyFrame, pc >>

\* the if-chain is left: main goes on with the next issue
ReturnFromApply ==
    /\ pc = "apply"
    /\ pending = << >>
    /\ pc' = "applied"
    /\ UNCHANGED << applyFrame, carried, pending, attempts >>

NextApply ==
    \/ RemoveLabel
    \/ AddLabel
    \/ PostComment
    \/ ReturnFromApply

SpecApply == InitApply /\ [][NextApply]_vars

----------------------------------------------------------------------------
(* Successive runs over one issue whose timeline no longer changes: every  *)
(* run takes a new "now", computes its cutoffs from it and classifies the  *)
(* same timeline again.                                                    *)

\* timelines of up to two events: comments of the assignee and assignments
\* at instants around the cutoffs of the first run, a comment of an outsider,
\* an open linked pull request of the assignee
RepeatTimelines ==
    LET RepeatStamps == ActivityStamps \cup { Now - TicksPerDay }
        RepeatEvents ==
                 { Commented(Assignee, t, 0, "text") : t \in RepeatStamps }
            \cup { Assigned(Outsider, Assignee, t) : t \in RepeatStamps }
            \cup { Commented(Outsider, cutoffTimes.updated, 0, "text"),
                   CrossReferenced(Assignee, TRUE, TRUE, "open", LinkThis,
                                   cutoffTimes.updated) }
    IN { withNodeIds(s) : s \in UNION { [1..n -> RepeatEvents] : n \in 0..2 } }

InitRepeat ==
    /\ timeframes = defaultTimeframes
    /\ idx = 1
    /\ RunIdle
    /\ UnitIdle
    /\ impl \in Impls
    /\ timeline \in RepeatTimelines
    /\ assignees = {Assignee}
    /\ pc = "due"
    /\ i = 0
    /\ lastAssignedTimestamp = 0
    /\ lastCommentTimestamp = 0
    /\ commentsToMinimize = << >>
    /\ minimizeCalls = << >>
    /\ overrideAt = 0
    /\ response = NoResponse
    /\ removeCalls = << >>
    /\ addCalls = << >>
    /\ postCalls = << >>
    /\ text = NullText
    /\ linked = NoLink

\* what a run of the classifier leaves alone
repeatFrame == << impl, timeline, assignees, i, lastAssignedTimestamp,
                  lastCommentTimestamp, commentsToMinimize, minimizeCalls,
                  overrideAt, removeCalls, addCalls, postCalls, text, linked,
                  runVars, selectVars, mergeVars, sortVars, applyVars >>

\* a run: the cutoffs from the "now" of the run, then the classifier over the timeline
ClassifyAgain ==
    /\ pc = "due"
    /\ response' = responseOf(impl, scanTimeline(impl, timeline, assignees))
    /\ pc' = "ran"
    /\ UNCHANGED << repeatFrame, elapsed, previous >>

\* the next run starts some days later
AdvanceToNextRun ==
    /\ pc = "ran"
    /\ \E days \in {1, 7} :
         /\ elapsed + days * TicksPerDay <= MaxElapsedDays * TicksPerDay
         /\ elapsed' = elapsed + days * TicksPerDay
    /\ previous' = response
    /\ pc' = "due"
    /\ UNCHANGED << repeatFrame, response >>

NextRepeat ==
    \/ ClassifyAgain
    \/ AdvanceToNextRun

SpecRepeat == InitRepeat /\ [][NextRepeat]_vars

----------------------------------------------------------------------------
(* Vocabulary of the properties *)

Classified == pc \in {"classified", "applied"}

Range(s) == { s[k] : k \in 1..Len(s) }

Max2(a, b) == IF a >= b THEN a ELSE b

WellFormed(e) ==
    /\ e.event \in {"commented", "cross-referenced"} => e.actor # NoLogin
    /\ e.event = "commented" => e.body # NoBody
    /\ e.event = "assigned" => e.assignee # NoLogin
    /\ e.event = "cross-referenced" => e.source.hasIssue

WellFormedTimeline == \A k \in 1..Len(timeline) : WellFormed(timeline[k])

AuthorizedComment(e) == e.event = "commented" /\ e.actor \in assignees

AuthorizedAssignment(e) == e.event = "assigned" /\ e.assignee \in assignees

\* the body holds exactly one keyword reference, and it names this issue
LinksThisIssue(body) ==
    /\ body.isString
    /\ \E p \in 1..Len(body.chars) :
          /\ matchAll(body.chars) = {p}
          /\ parseInt(body.chars[p + 2]) = issueNum

\* a cross-reference that qualifies for the override: an open pull request that
\* links this issue, by an assignee
QualifyingCrossReference(e) ==
    /\ e.event = "cross-referenced"
    /\ e.source.hasIssue
    /\ e.source.issue.pull_request
    /\ e.source.issue.state = "open"
    /\ LinksThisIssue(e.source.issue.body)
    /\ e.actor \in assignees

\* occurredAt of the most recent (highest index) event of the timeline satisfying P
LastAt(P(_)) ==
    LET S == { k \in 1..Len(timeline) : P(timeline[k]) } IN
    IF S = {} THEN 0
    ELSE eventTimestampOf(timeline[CHOOSE k \in S : \A m \in S : m <= k])

LastActivityAt == Max2(LastAt(AuthorizedComment), LastAt(AuthorizedAssignment))

\* the label class of the specification for a last-activity instant (0 = none)
ClassAt(t) ==
    IF t = 0 THEN "SecondNotice"
    ELSE IF t >= cutoffTimes.updated THEN "Updated"
    ELSE IF t >= cutoffTimes.comment THEN "None"
    ELSE IF t >= cutoffTimes.inactive THEN "FirstNotice"
    ELSE "SecondNotice"

LabelClass(r) ==
    CASE r.labels = labels.statusUpdated   -> "Updated"
      [] r.labels = ""                     -> "None"
      [] r.labels = labels.statusInactive1 -> "FirstNotice"
      [] r.labels = labels.statusInactive2 -> "SecondNotice"
      [] OTHER                             -> "?"

IsStale(r) == IF impl = "add-label" THEN r.action = "add" ELSE r.result = "true"

StaleClass(c) == c \in {"FirstNotice", "SecondNotice"}

----------------------------------------------------------------------------
(* Properties *)

\* C1: for every well-formed timeline with no qualifying cross-reference and at
\* least one authorized comment or assignment, the response is the class of the
\* last activity instant: Updated (not stale) within the current window, None
\* (not stale) within grace, FirstNotice (stale) within staleEnd, SecondNotice
\* (stale) past it, whether the deciding activity is a comment or an assignment.
C1_ClassOfLastActivity ==
    ( /\ Classified
      /\ WellFormedTimeline
      /\ overrideAt = 0
      /\ \A e \in Range(timeline) : ~QualifyingCrossReference(e)
      /\ \E e \in Range(timeline) : AuthorizedComment(e) \/ AuthorizedAssignment(e) )
    => /\ LabelClass(response) = ClassAt(LastActivityAt)
       /\ IsStale(response) = StaleClass(ClassAt(LastActivityAt))

\* C2: with both an authorized comment and an authorized assignment in a
\* well-formed timeline and no override, the label class is the class of the more
\* recent of the two instants.
C2_MoreRecentDecides ==
    ( /\ Classified
      /\ WellFormedTimeline
      /\ overrideAt = 0
      /\ \A e \in Range(timeline) : ~QualifyingCrossReference(e)
      /\ \E e \in Range(timeline) : AuthorizedComment(e)
      /\ \E e \in Range(timeline) : AuthorizedAssignment(e) )
    => LabelClass(response) =
         ClassAt(Max2(LastAt(AuthorizedComment), LastAt(AuthorizedAssignment)))

\* C3: a well-formed timeline with no authorized comment, no authorized assignment
\* and no qualifying cross-reference (the empty timeline included) is classified
\* stale with SecondNotice.
C3_NoActivityIsSecondNotice ==
    ( /\ Classified
      /\ WellFormedTimeline
      /\ \A e \in Range(timeline) :
            /\ ~AuthorizedComment(e)
            /\ ~AuthorizedAssignment(e)
            /\ ~QualifyingCrossReference(e) )
    => /\ LabelClass(response) = "SecondNotice"
       /\ IsStale(response)

\* C4: a well-formed timeline that holds an open, authorized, linked pull-request
\* cross-reference anywhere is answered by the override: not stale, all three
\* labels removed, nothing added, no comment posted.
C4_OverridePrecedence ==
    ( /\ Classified
      /\ WellFormedTimeline
      /\ \E e \in Range(timeline) : QualifyingCrossReference(e) )
    => /\ overrideAt # 0
       /\ ~IsStale(response)
       /\ pc = "applied" =>
            /\ Range(removeCalls) =
                 {labels.statusUpdated, labels.statusInactive1, labels.statusInactive2}
            /\ addCalls = << >>
            /\ postCalls = << >>

\* C5: the override fires only for a cross-reference whose source is a pull
\* request, whose source is open, whose body links this issue and whose actor is
\* an assignee.
C5_OverrideNeedsAllConditions ==
    overrideAt # 0 => QualifyingCrossReference(timeline[overrideAt])

\* C9: the window comparisons are inclusive: with a single authorized activity in
\* a well-formed timeline and no cross-reference, an activity exactly at now minus
\* updatedByDays is Updated, exactly at now minus commentByDays is None, exactly
\* at now minus inactiveByDays is FirstNotice.
C9_InclusiveCutoffs ==
    ( /\ Classified
      /\ WellFormedTimeline
      /\ \A e \in Range(timeline) : e.event # "cross-referenced"
      /\ Cardinality({ k \in 1..Len(timeline) :
           AuthorizedComment(timeline[k]) \/ AuthorizedAssignment(timeline[k]) }) = 1 )
    => /\ LastActivityAt = Now - updatedByDays * TicksPerDay
            => LabelClass(response) = "Updated"
       /\ LastActivityAt = Now - commentByDays * TicksPerDay
            => LabelClass(response) = "None"
       /\ LastActivityAt = Now - inactiveByDays * TicksPerDay
            => LabelClass(response) = "FirstNotice"

\* C6: when the override fires no comment is handed to minimizeComments, whether
\* eligible bot comments sit after or before the overriding cross-reference.
C6_OverrideMinimizesNothing ==
    overrideAt # 0 => minimizeCalls = << >>

\* C6 witness: the override fired after the scan had already collected an
\* eligible bot comment, and the run has applied its labels.
C6_Witness ==
    /\ pc = "applied"
    /\ overrideAt # 0
    /\ commentsToMinimize # << >>

\* a keyword, one space and an issue reference, bounded by whitespace or the ends
ReferenceAt(chars, p) ==
    /\ p + 2 <= Len(chars)
    /\ toLowerCase(chars[p]) \in KEYWORDS
    /\ chars[p + 1] = " "
    /\ chars[p + 2] \in {"#1", "#2"}
    /\ (p > 1 => chars[p - 1] \in {" ", "\n", "\t"})
    /\ (p + 2 < Len(chars) => chars[p + 3] \in {" ", "\n", "\t"})

References(t) ==
    IF t.isString THEN { p \in 1..Len(t.chars) : ReferenceAt(t.chars, p) } ELSE {}

AmbiguousCrossReference(e) ==
    /\ e.event = "cross-referenced"
    /\ e.source.hasIssue
    /\ Cardinality(References(e.source.issue.body)) > 1

\* C7: a cross-reference whose source body holds more than one keyword reference
\* never triggers the override, even when one of them names this issue; a timeline
\* whose cross-references are all ambiguous is classified by the staleness rules.
C7_AmbiguousNeverOverrides ==
    /\ \A k \in 1..Len(timeline) :
          AmbiguousCrossReference(timeline[k]) => overrideAt # k
    /\ ( /\ Classified
         /\ \A e \in Range(timeline) :
               e.event = "cross-referenced" => AmbiguousCrossReference(e) )
       => /\ overrideAt = 0
          /\ response = classify(impl, lastCommentTimestamp, lastAssignedTimestamp)

\* C7 witness: an open pull request of an assignee whose body names this issue
\* and another one has been scanned, and the item was classified without override.
C7_Witness ==
    /\ Classified
    /\ overrideAt = 0
    /\ \E e \in Range(timeline) :
          /\ AmbiguousCrossReference(e)
          /\ e.source.issue.body = LinkBoth
          /\ e.source.issue.pull_request /\ e.source.pull_request
          /\ e.source.issue.state = "open"
          /\ e.actor \in assignees

\* C8: findLinkedIssue returns N exactly when the text holds one single keyword
\* reference "#N" (case-insensitive, word-bounded); with none, with two or more,
\* or with no text it returns false without raising; the link condition of the
\* override holds only when the returned N is the number of the item.
C8_LinkDetection ==
    pc = "linked" =>
       /\ IF Cardinality(References(text)) = 1
          THEN \E p \in References(text) :
                  linked = [found |-> TRUE,
                            number |-> IF text.chars[p + 2] = "#1" THEN 1 ELSE 2]
          ELSE linked = [found |-> FALSE, number |-> 0]
       /\ looseEquals(linked, issueNum) => linked.found /\ linked.number = issueNum

\* C8 witness: a single reference inside a longer text was found, next to a
\* keyword that is not word-bounded.
C8_Witness ==
    /\ pc = "linked"
    /\ linked.found
    /\ Len(text.chars) > 4
    /\ \E p \in 2..Len(text.chars) : text.chars[p] = "Fixes" /\ text.chars[p - 1] = "x"

\* what the minimization is meant to collect: a comment of a bot, without the
\* marker, created before the grace cutoff and not before the horizon cutoff
EligibleForMinimize(e) ==
    /\ e.event = "commented"
    /\ e.actor \in bots
    /\ e.body # MARKER
    /\ e.created_at < cutoffTimes.comment
    /\ e.created_at >= cutoffTimes.upperLimit

\* C10: when no override fires, commentsToMinimize holds exactly the node ids of
\* the eligible bot comments, each once, and these are what minimizeComments gets.
C10_MinimizationWindow ==
    ( Classified /\ overrideAt = 0 ) =>
       /\ Range(commentsToMinimize) =
            { e.node_id : e \in { f \in Range(timeline) : EligibleForMinimize(f) } }
       /\ Cardinality(Range(commentsToMinimize)) = Len(commentsToMinimize)
       /\ minimizeCalls = commentsToMinimize

\* C10 witness: a classified timeline with one bot comment that was collected and
\* one bot comment older than the horizon that was not.
C10_Witness ==
    /\ pc = "applied"
    /\ overrideAt = 0
    /\ Len(commentsToMinimize) = 1
    /\ \E e \in Range(timeline) :
          /\ e.event = "commented" /\ e.actor \in bots /\ e.body # MARKER
          /\ e.created_at < cutoffTimes.upperLimit

----------------------------------------------------------------------------
(* The plan derived from a classification *)

\* the example of the resolver: assigned twenty days ago, commented ten days ago
NoticeExample ==
    withNodeIds(<< Assigned(Outsider, Assignee, Now - 20 * TicksPerDay),
                   Commented(Assignee, Now - 10 * TicksPerDay, 0, "text") >>)

\* C11: for label class FirstNotice the plan removes Updated and SecondNotice,
\* adds exactly FirstNotice and posts one comment; for SecondNotice it removes
\* Updated and FirstNotice, adds exactly SecondNotice and posts one comment; the
\* timeline [assigned at day -20, commented at day -10] resolves to the
\* FirstNotice plan.
C11_NoticePlans ==
    pc = "applied" =>
      /\ LabelClass(response) = "FirstNotice" =>
            /\ Range(removeCalls) = {labels.statusUpdated, labels.statusInactive2}
            /\ addCalls = << labels.statusInactive1 >>
            /\ Len(postCalls) = 1
      /\ LabelClass(response) = "SecondNotice" =>
            /\ Range(removeCalls) = {labels.statusUpdated, labels.statusInactive1}
            /\ addCalls = << labels.statusInactive2 >>
            /\ Len(postCalls) = 1
      /\ timeline = NoticeExample =>
            /\ Range(removeCalls) = {labels.statusUpdated, labels.statusInactive2}
            /\ addCalls = << labels.statusInactive1 >>
            /\ Len(postCalls) = 1

C11_Witness ==
    /\ pc = "applied"
    /\ timeline = NoticeExample
    /\ addCalls = << labels.statusInactive1 >>
    /\ postCalls # << >>

----------------------------------------------------------------------------
(* Events that must not matter *)

RemoveAt(s, k) == SubSeq(s, 1, k - 1) \o SubSeq(s, k + 1, Len(s))

\* the run over timeline agrees with the scan of the timeline without event k
SameAsWithout(k) ==
    LET scan == scanTimeline(impl, RemoveAt(timeline, k), assignees) IN
    /\ pc = "threw" <=> scan.outcome = "throw"
    /\ Classified =>
          /\ response = responseOf(impl, scan)
          /\ minimizeCalls = minimizedOf(scan)

\* C14: a malformed event is skipped: the scan does not raise, and the
\* classification is that of the timeline without the malformed event.
C14_MalformedSkipped ==
    \A k \in 1..Len(timeline) :
        ~WellFormed(timeline[k]) =>
            /\ pc # "threw"
            /\ pc \in {"threw", "classified", "applied"} => SameAsWithout(k)

\* the source of the cross-reference is a pull request that is closed
ClosedLinkedPullRequest(e) ==
    /\ e.event = "cross-referenced"
    /\ e.source.hasIssue
    /\ e.source.issue.pull_request
    /\ e.source.issue.state = "closed"

\* C20: a cross-reference whose linked pull request is closed changes nothing:
\* the response and the comments to minimize are those of the timeline without
\* that event.
C20_ClosedPullRequestIsInert ==
    \A k \in 1..Len(timeline) :
        ( /\ ClosedLinkedPullRequest(timeline[k])
          /\ WellFormed(timeline[k])
          /\ pc \in {"threw", "classified", "applied"} )
        => SameAsWithout(k)

C20_Witness ==
    /\ pc = "applied"
    /\ Len(timeline) = 2
    /\ ClosedLinkedPullRequest(timeline[2])
    /\ timeline[2].actor \in assignees
    /\ LinksThisIssue(timeline[2].source.issue.body)
    /\ LabelClass(response) = "FirstNotice"
    /\ addCalls = << labels.statusInactive1 >>

\* an event that no assignee and no bot stands behind: a comment or a
\* cross-reference of another actor, the assignment of somebody who is not an
\* assignee, an unassignment, any other kind of event
Unauthorized(e) ==
    \/ e.event \in {"commented", "cross-referenced"} /\ e.actor \notin (assignees \cup bots)
    \/ e.event = "assigned" /\ e.assignee \notin assignees
    \/ e.event \notin {"commented", "cross-referenced", "assigned"}

\* C28: well-formed events of actors who are neither assignees nor bots do not
\* interfere: the response, the comments to minimize and the label and comment
\* calls are those of the timeline without such an event.
C28_UnauthorizedEventsAreInert ==
    \A k \in 1..Len(timeline) :
        ( /\ Unauthorized(timeline[k])
          /\ WellFormed(timeline[k])
          /\ pc \in {"threw", "classified", "applied"} )
        => /\ SameAsWithout(k)
           /\ pc = "applied" =>
                LET r == responseOf(impl, scanTimeline(impl, RemoveAt(timeline, k), assignees))
                IN /\ removeCalls = labelsToRemove(impl, r)
                   /\ addCalls = labelsToAdd(impl, r)
                   /\ postCalls = commentsToPost(impl, r)

\* C28 witness: another actor's open pull request that links this issue comes
\* after a comment of the assignee; the comment decided
C28_Witness ==
    /\ pc = "applied"
    /\ Len(timeline) = 2
    /\ AuthorizedComment(timeline[1])
    /\ Unauthorized(timeline[2])
    /\ isOpenLinkedPullRequest(impl, timeline[2], issueNum)
    /\ overrideAt = 0
    /\ lastCommentTimestamp = eventTimestampOf(timeline[1])

\* the stepwise run and the scan as a function agree
ScanAgrees ==
    LET scan == scanTimeline(impl, timeline, assignees) IN
    /\ pc = "threw" => scan.outcome = "throw"
    /\ Classified =>
          /\ response = responseOf(impl, scan)
          /\ minimizeCalls = minimizedOf(scan)

----------------------------------------------------------------------------
(* The run of main *)

InFlight == { k \in 1..Len(minimizeLog) : minimizeLog[k].settled = -1 }

C15_OnlyCompleteTimelines ==
    pc \in {"analyze", "awaitMinimize", "apply"} => fetchBroke # "request failed"

\* C16: the timeline handed to the classifier for issue N is the timeline of
\* issue N: every page the endpoint returns for N, in page order, up to the
\* first empty page.
C16_TimelineOfTheIssue ==
    ( /\ pc \in {"analyze", "awaitMinimize", "apply"}
      /\ fetchBroke # "request failed" )
    => timeline = server[issueNum]

\* the day offsets are not strictly increasing
Inverted(tf) ==
    ~ ( /\ tf.updatedByDays < tf.commentByDays
        /\ tf.commentByDays < tf.inactiveByDays
        /\ tf.inactiveByDays < tf.upperLimitDays )

\* C17: with an inverted cutoff configuration the run stops at the
\* configuration: no timeline is scanned and no label, comment or minimize
\* request is sent.
C17_InvertedCutoffsRejected ==
    ( /\ requiredFields \subseteq DOMAIN timeframes
      /\ Inverted(timeframes) )
    => /\ pc \in {"config", "failed"}
       /\ results = << >>
       /\ calls = << >>
       /\ minimizeLog = << >>

DryRunEnabled == dryRunInput = "true"

\* C18: a run in dry-run mode sends no label-add, label-remove, comment-post or
\* comment-minimize request; the mode is enabled by the input 'true', not by an
\* absent input or by 'false'.
C18_DryRunChangesNothing ==
    DryRunEnabled => calls = << >> /\ minimizeLog = << >>

Classifiable == { issueNums[k] : k \in 1..Len(issueNums) }

\* C19: the response is a function of the timeline, the assignees, the bots and
\* the cutoffs alone, and a failed minimize call neither changes it nor keeps an
\* issue of the run from being classified.
C19_ClassificationIsPure ==
    /\ pc = "apply" =>
          response = responseOf(impl, scanTimeline(impl, timeline, assignees))
    /\ ( /\ pc = "failed"
         /\ requiredFields \subseteq DOMAIN timeframes
         /\ assignees # NullAssignees )
       => scanTimeline(impl, timeline, assignees).outcome = "throw"
    /\ pc = "crashed" =>
          { results[k].issue : k \in 1..Len(results) } = Classifiable

----------------------------------------------------------------------------
(* The ends of the minimization window *)

\* now minus exactly the upper limit of days
Horizon == Now - timeframes.upperLimitDays * TicksPerDay

\* now minus exactly the days after which a comment is asked for
GraceEnd == Now - timeframes.commentByDays * TicksPerDay

BotCommentAt(t) ==
    \E e \in Range(timeline) :
        /\ e.event = "commented" /\ e.actor \in bots /\ e.body # MARKER
        /\ e.created_at = t

\* C24: the minimization window is strict at both ends: every comment collected
\* for minimization was created strictly after now minus the upper limit and
\* strictly before now minus the comment days, so a bot comment created exactly
\* at either instant is not collected.
C24_StrictMinimizeWindow ==
    \A e \in Range(timeline) :
        e.node_id \in Range(commentsToMinimize) =>
            Horizon < e.created_at /\ e.created_at < GraceEnd

\* C24 witness: a scanned timeline with a bot comment exactly at each end of the
\* window, none of them collected
C24_Witness ==
    /\ pc = "applied"
    /\ BotCommentAt(Horizon)
    /\ BotCommentAt(GraceEnd)
    /\ commentsToMinimize = << >>

----------------------------------------------------------------------------
(* The two timestamps of the backward scan *)

\* the timestamp of the qualifying event of highest index among the events the
\* scan has passed (those above i), 0 when there is none
FirstMetAt(P(_)) ==
    LET S == { k \in (i + 1)..Len(timeline) : P(timeline[k]) } IN
    IF S = {} THEN 0
    ELSE eventTimestampOf(timeline[CHOOSE k \in S : \A m \in S : m <= k])

\* C26: during the backward scan each of the two timestamps is written at most
\* once: it is the update time, else the creation time, of the first qualifying
\* event met from the end of the timeline, and no event of lower index replaces
\* it, whatever its time.
C26_TimestampsWrittenOnce ==
    pc \in {"scan", "classified", "applied"} =>
        /\ lastCommentTimestamp = FirstMetAt(AuthorizedComment)
        /\ lastAssignedTimestamp = FirstMetAt(AuthorizedAssignment)

\* C26 witness: the scan is over a timeline of two comments of the assignee, the
\* first one edited after the second was written; the second one's time was kept
C26_Witness ==
    /\ pc = "applied"
    /\ Len(timeline) = 2
    /\ AuthorizedComment(timeline[1]) /\ AuthorizedComment(timeline[2])
    /\ timeline[1].created_at < timeline[2].created_at
    /\ eventTimestampOf(timeline[1]) > eventTimestampOf(timeline[2])
    /\ lastCommentTimestamp = eventTimestampOf(timeline[2])

----------------------------------------------------------------------------
(* The run as a whole *)

\* the run ended before the loop of main was through
Aborted == pc \in {"failed", "crashed"}

\* every minimizeComments loop the run started has ended
MinimizeFinished == \A t \in 1..Len(tasks) : tasks[t].st \in {"done", "failed"}

\* C29: every selected issue is handled before the run reports completion: a
\* failure met while one issue is handled (its assignees, its timeline, one of
\* its requests) does not abort the run, so with a complete configuration the
\* loop of main is never left early, and when main returns every minimize call
\* the run started has finished.
C29_EveryIssueHandled ==
    /\ validateRequiredFields(timeframes) => ~ Aborted
    /\ pc = "done" => MinimizeFinished

----------------------------------------------------------------------------
(* Issue selection *)

EligibleIssue(number) ==
    /\ repo[number].state = "open"
    /\ repo[number].assigned
    /\ ~ repo[number].pull_request
    /\ repo[number].labels \cap excludeLabels = {}
    /\ repo[number].statusName = targetStatus

\* C21: every issue number the run selects for classification is an open,
\* assigned issue, not a pull request, without excluded label and in the target
\* column of the project board; an issue in another column is never selected.
C21_OnlyEligibleIssuesSelected ==
    \A k \in 1..Len(selected) : EligibleIssue(selected[k])

----------------------------------------------------------------------------
(* Configuration merge *)

\* a value of higher priority over one of lower priority
Over(lo, hi) ==
    IF hi = Atom("undefined") THEN lo
    ELSE IF hi.t = "object" /\ lo.t = "object"
         THEN Obj([ k \in Keys |-> IF hi.o[k] # "undefined" THEN hi.o[k] ELSE lo.o[k] ])
         ELSE hi

\* C22: the merged configuration holds, for every key, the override's value if
\* the override defines it, else the file's, else the default; two objects are
\* merged key by key, an array or a primitive replaces the lower value whole,
\* and undefined never overrides.
C22_MergePrecedence ==
    pc = "merged" => config = Over(Over(layers[1], layers[2]), layers[3])

----------------------------------------------------------------------------
(* Sorting of a closed issue *)

HasHard == issueLabels \cap hardLabels # {}

HasOverride == issueLabels \cap overrideSoftLabels # {}

HasSoft == issueLabels \cap softLabels # {}

\* C23: a closed issue is sorted into 'Done' or 'QA': a hard label gives
\* 'Done' whatever else the issue carries, an override label without hard
\* label gives 'QA' even with a soft label, a soft label alone gives 'Done',
\* and an issue with none of them goes to 'QA'.
C23_SortPrecedence ==
    pc = "sorted" =>
        /\ status \in {"Done", "QA"}
        /\ HasHard => status = "Done"
        /\ ~ HasHard /\ HasOverride => status = "QA"
        /\ ~ HasHard /\ ~ HasOverride => (status = "Done" <=> HasSoft)

\* a sorted issue that carries a hard, an override and a soft label
C23_Witness ==
    /\ pc = "sorted"
    /\ HasHard /\ HasOverride /\ HasSoft
    /\ status = "Done"

----------------------------------------------------------------------------
(* The requests of one issue *)

\* the requests sent so far, without their outcomes
Attempted == [ k \in 1..Len(attempts) |-> attempts[k].call ]

Failed(k) == attempts[k].outcome = "error"

\* C25: the steps of the executor are independently recoverable: whatever
\* request fails, every request of the plan that follows it is still sent, in
\* the order of the plan, and the executor returns to the loop of main.
C25_StepsIndependent ==
    /\ Attempted \o pending = planCalls(impl, issueNum, response, assignees)
    /\ pc = "applied" => pending = << >>

\* C25 witness: a removal failed, and the removal, the addition and the comment
\* that follow it were sent and succeeded before the executor returned
C25_Witness ==
    /\ pc = "applied"
    /\ Len(attempts) = 4
    /\ Failed(1) /\ attempts[1].call.op = "remove"
    /\ \A k \in 2..4 : ~ Failed(k)
    /\ attempts[3].call.op = "add" /\ attempts[4].call.op = "post"

\* every request sent for the issue was answered without error (the removal of
\* a label the issue does not carry is answered 404)
AllSucceeded == \A k \in 1..Len(attempts) : ~ Failed(k)

\* C27: from any label state, once the plan of a classification was applied
\* with every request succeeding, the issue carries at most one of the three
\* labels, and carries the first (second) notice label exactly when the
\* classification was FirstNotice (SecondNotice).
C27_LabelExclusivity ==
    ( pc = "applied" /\ AllSucceeded ) =>
        /\ Cardinality(carried \cap statusLabels) <= 1
        /\ labels.statusInactive1 \in carried <=> LabelClass(response) = "FirstNotice"
        /\ labels.statusInactive2 \in carried <=> LabelClass(response) = "SecondNotice"

\* C27 witness: an issue that carried all three labels was classified
\* FirstNotice and now carries that label alone
C27_Witness ==
    /\ pc = "applied"
    /\ AllSucceeded
    /\ Len(attempts) >= 3
    /\ \A k \in 1..2 : attempts[k].call.op = "remove" /\ attempts[k].outcome = "ok"
    /\ LabelClass(response) = "FirstNotice"
    /\ carried = { labels.statusInactive1 }

\* the order of the label classes along which an idle issue escalates
rank(c) ==
    CASE c = "Updated"      -> 1
      [] c = "None"         -> 2
      [] c = "FirstNotice"  -> 3
      [] c = "SecondNotice" -> 4
      [] OTHER              -> 0

NoOverride == scanTimeline(impl, timeline, assignees).outcome = "end"

\* C30: over successive runs on a timeline that does not change, has no open
\* linked pull request of an assignee and is classified with the default
\* (ordered) timeframes, the label class of a run is never earlier in
\* Updated -> None -> FirstNotice -> SecondNotice than the class of the run
\* before it, and every run that takes place more than inactiveByDays days
\* after the last authorized activity yields SecondNotice.
C30_EscalationIsMonotone ==
    pc = "ran" /\ NoOverride =>
        /\ LabelClass(response) \in {"Updated", "None", "FirstNotice", "SecondNotice"}
        /\ previous # NoResponse =>
               rank(LabelClass(previous)) <= rank(LabelClass(response))
        /\ Now - LastActivityAt > inactiveByDays * TicksPerDay =>
               LabelClass(response) = "SecondNotice"

\* a later run moves an issue with authorized activity from the first to the second notice
C30_Witness ==
    /\ pc = "ran"
    /\ NoOverride
    /\ elapsed > 0
    /\ LastActivityAt # 0
    /\ LabelClass(previous) = "FirstNotice"
    /\ LabelClass(response) = "SecondNotice"

====
